---- MODULE Spec2Model ----
(***************************************************************************)
(* Model of vibe-palette: the colour engine (src/src/lib/colorUtils.ts),   *)
(* the storage of palettes (src/src/lib/storage.ts), the App component     *)
(* (src/unnamed/part_003, lines 420-572), the list of palettes            *)
(* (src/unnamed/part_003, lines 726-811), the palette editor               *)
(* (src/src/views/PaletteEditor.tsx, and its later version                 *)
(* src/unnamed/part_004 with the colour picker) and the shades modal       *)
(* (src/src/lib/colorUtils.ts, lines 237-402).                             *)
(*                                                                         *)
(* Representation                                                          *)
(*  - A JavaScript string is a sequence of one-character strings:          *)
(*    "#abc" is <<"#", "a", "b", "c">>.                                    *)
(*  - null is Null, the empty sequence.  No function of the module returns *)
(*    an empty string or an empty object, and the code tests its results   *)
(*    with `!x`, which treats null and "" alike.                           *)
(*  - {r, g, b} and {h, s, l} are records with those fields.               *)
(*  - Strings the code only stores and compares (labels, roles, brand,     *)
(*    notes, toast messages) are TLA+ strings.                             *)
(*  - An id made by generateId is a one-element sequence holding the       *)
(*    serial number of the call; a time stamp is the reading of a clock    *)
(*    that advances with every reading.                                    *)
(*  - A number that may carry a fraction (the arguments of rgbToHex, the   *)
(*    saturation handed to hslToRgb) is held as an integer count of        *)
(*    tenths; every other number is an integer.                            *)
(*  - Arithmetic is exact rational arithmetic on integers.  The code       *)
(*    computes in IEEE-754 doubles; the two agree on every value that is   *)
(*    rounded unless the exact value is a half-integer, where the double   *)
(*    may lie one ulp below the tie and Math.round then returns the lower  *)
(*    neighbour.  The one comparison of the module that is not behind a    *)
(*    Math.round, luminance > 0.5 in getColorBrightness, is modelled with  *)
(*    the outcome the doubles give (see luminanceAboveHalf).               *)
(***************************************************************************)
EXTENDS Integers, Sequences, FiniteSets, TLC

VARIABLES
    fn,     \* the function the caller has applied: "none" before the call
    arg,    \* the argument the caller holds
    ret,    \* the value the call returned: Null before the call
    storage,            \* what localStorage holds under "vibe-palettes-v1"
    loaded,             \* App's load effect has run
    palettes,           \* App: the palettes state
    currentView,        \* App: "list" or "editor"
    selectedPaletteId,  \* App: an id or Null
    editedPalette,      \* PaletteEditor: its state, Null while not mounted
    toast,              \* the message showToast showed last, "" for none
    nextId,             \* serial number of the next id generateId returns
    clock,              \* the time new Date() returns next
    showImportModal,    \* PaletteList: the import modal is open
    showRestoreModal,   \* PaletteList: the restore modal is open
    download,           \* content of the file exportBackup saved last, Null for none
    shadesModal,        \* App: Null, or the colour the shades modal was opened for
    hexInput,           \* ColorRow: the text of the hex field of each row of the editor
    focus               \* the row whose hex field holds the focus, 0 for none

\* PaletteList's own state
listVars == <<showImportModal, showRestoreModal>>

\* the state of the rows of the editor and of the shades modal
rowVars == <<shadesModal, hexInput, focus>>

appVars ==
    <<storage, loaded, palettes, currentView, selectedPaletteId,
      editedPalette, toast, nextId, clock, listVars, download, rowVars>>

vars == <<fn, arg, ret, appVars>>

Null == <<>>

\* the application has not started and nothing is stored
AppNotStarted ==
    /\ storage = [item |-> "null"]
    /\ loaded = FALSE
    /\ palettes = <<>>
    /\ currentView = "list"
    /\ selectedPaletteId = Null
    /\ editedPalette = Null
    /\ toast = ""
    /\ nextId = 1
    /\ clock = 0
    /\ showImportModal = FALSE
    /\ showRestoreModal = FALSE
    /\ download = Null
    /\ shadesModal = Null
    /\ hexInput = <<>>
    /\ focus = 0

(***************************************************************************)
(* Characters                                                              *)
(***************************************************************************)
Whitespace == {" ", "\t", "\n"}

LowerDigits == <<"0", "1", "2", "3", "4", "5", "6", "7",
                 "8", "9", "a", "b", "c", "d", "e", "f">>

UpperDigits == <<"0", "1", "2", "3", "4", "5", "6", "7",
                 "8", "9", "A", "B", "C", "D", "E", "F">>

LowerLetters == <<"a", "b", "c", "d", "e", "f", "g", "h", "i", "j", "k", "l", "m",
                  "n", "o", "p", "q", "r", "s", "t", "u", "v", "w", "x", "y", "z">>

UpperLetters == <<"A", "B", "C", "D", "E", "F", "G", "H", "I", "J", "K", "L", "M",
                  "N", "O", "P", "Q", "R", "S", "T", "U", "V", "W", "X", "Y", "Z">>

Range(f) == {f[i] : i \in DOMAIN f}

IndexOf(c, f) == CHOOSE i \in DOMAIN f : f[i] = c

\* the character class [0-9A-Fa-f] of the pattern at line 22
HexChars == Range(LowerDigits) \cup Range(UpperDigits)

\* String.prototype.toUpperCase, one character
UpperChar(c) ==
    IF c \in Range(LowerLetters) THEN UpperLetters[IndexOf(c, LowerLetters)] ELSE c

toUpperCase(s) == [i \in 1..Len(s) |-> UpperChar(s[i])]

\* the value parseInt(c, 16) gives one hexadecimal digit
DigitValue(c) ==
    IF c \in Range(LowerDigits) THEN IndexOf(c, LowerDigits) - 1
    ELSE IndexOf(c, UpperDigits) - 1

\* parseInt(s, 16) for a string of hexadecimal digits
RECURSIVE parseInt16(_)
parseInt16(s) ==
    IF s = <<>> THEN 0
    ELSE 16 * parseInt16(SubSeq(s, 1, Len(s) - 1)) + DigitValue(s[Len(s)])

\* Number.prototype.toString(16) for an integer n >= 0
RECURSIVE toString16(_)
toString16(n) ==
    IF n < 16 THEN <<LowerDigits[n + 1]>>
    ELSE toString16(n \div 16) \o <<LowerDigits[(n % 16) + 1]>>

(***************************************************************************)
(* String.prototype.trim                                                   *)
(***************************************************************************)
RECURSIVE trimStart(_)
trimStart(s) ==
    IF s # <<>> /\ Head(s) \in Whitespace THEN trimStart(Tail(s)) ELSE s

RECURSIVE trimEnd(_)
trimEnd(s) ==
    IF s # <<>> /\ s[Len(s)] \in Whitespace
    THEN trimEnd(SubSeq(s, 1, Len(s) - 1))
    ELSE s

trim(s) == trimEnd(trimStart(s))

(***************************************************************************)
(* normalizeHex (lines 12-40)                                              *)
(***************************************************************************)
\* StripHash without lines 17-19: the leading '#' is kept
StripHash_KeepHash(input) == trim(input)

\* lines 14-19: trim, then drop one leading '#'
StripHash(input) ==
    LET hex == trim(input)
    IN  IF hex # <<>> /\ Head(hex) = "#" THEN Tail(hex) ELSE hex

\* IsHexString with the pattern's anchors dropped: /[0-9A-Fa-f]+/
IsHexString_Unanchored(hex) == \E i \in 1..Len(hex) : hex[i] \in HexChars

\* line 22: /^[0-9A-Fa-f]+$/.test(hex)
IsHexString(hex) == Len(hex) >= 1 /\ \A i \in 1..Len(hex) : hex[i] \in HexChars

\* ExpandShorthand repeating the string instead of each character
ExpandShorthand_Repeat(hex) == hex \o hex

\* lines 28-31: split(''), double every character, join('')
ExpandShorthand(hex) == [i \in 1..(2 * Len(hex)) |-> hex[(i + 1) \div 2]]

normalizeHex(input) ==
    LET hex == StripHash(input)
    IN  IF ~IsHexString(hex) THEN Null
        ELSE LET full == IF Len(hex) = 3 THEN ExpandShorthand(hex) ELSE hex
             IN  IF Len(full) # 6 THEN Null
                 ELSE <<"#">> \o toUpperCase(full)

(***************************************************************************)
(* hexToRgb (lines 45-55)                                                  *)
(***************************************************************************)
hexToRgb(hex) ==
    LET normalized == normalizeHex(hex)
    IN  IF normalized = Null THEN Null
        ELSE LET hexValue == Tail(normalized)
             IN  [r |-> parseInt16(SubSeq(hexValue, 1, 2)),
                  g |-> parseInt16(SubSeq(hexValue, 3, 4)),
                  b |-> parseInt16(SubSeq(hexValue, 5, 6))]

(***************************************************************************)
(* Rounding                                                                *)
(***************************************************************************)
\* Math.round(n / d) for d > 0: the nearest integer, a tie going up
Round(n, d) == (2 * n + d) \div (2 * d)

Max(a, b) == IF a >= b THEN a ELSE b
Min(a, b) == IF a <= b THEN a ELSE b

(***************************************************************************)
(* rgbToHsl (lines 60-93); r, g, b integers in 0..255                      *)
(*                                                                         *)
(* Lines 61-63 divide the channels by 255; here they stay in 255ths, so    *)
(* max + min is sum / 255, l is sum / 510 and d is delta / 255.            *)
(***************************************************************************)
rgbToHsl(r, g, b) ==
    LET max == Max(r, Max(g, b))
        min == Min(r, Min(g, b))
        sum == max + min
        l == Round(100 * sum, 510)                      \* Math.round(l * 100)
    IN  IF max = min THEN [h |-> 0, s |-> 0, l |-> l]
        ELSE
          LET d == max - min
              \* line 73: l > 0.5 ? d / (2 - max - min) : d / (max + min)
              sDen == IF sum > 255 THEN 510 - sum ELSE sum
              \* lines 75-85: 6 * h, as a count of d-ths; the first case
              \* that equals max wins
              h6 == IF max = r THEN (g - b) + (IF g < b THEN 6 * d ELSE 0)
                    ELSE IF max = g THEN (b - r) + 2 * d
                    ELSE (r - g) + 4 * d
          IN  [h |-> Round(60 * h6, d),                 \* Math.round(h * 360)
               s |-> Round(100 * d, sDen),              \* Math.round(s * 100)
               l |-> l]

(***************************************************************************)
(* hslToRgb (lines 98-130); h in degrees, s in tenths of a percent, l in   *)
(* percent.                                                                *)
(*                                                                         *)
(* p and q are counts of 1/100000 (l / 100 times s / 1000); t is h / 360   *)
(* plus or minus a third and is held in degrees, so that 1/6, 1/2, 2/3 and *)
(* 1 are 60, 180, 240 and 360; hue2rgb returns a count of 1/6000000.       *)
(***************************************************************************)
\* hue2rgb without line 109: a negative t is not wrapped
hue2rgb_NoWrap(p, q, t) ==
    LET t2 == IF t > 360 THEN t - 360 ELSE t
    IN  IF t2 < 60 THEN 60 * p + (q - p) * t2
        ELSE IF t2 < 180 THEN 60 * q
        ELSE IF t2 < 240 THEN 60 * p + (q - p) * (240 - t2)
        ELSE 60 * p

\* lines 108-115
hue2rgb(p, q, t) ==
    LET t1 == IF t < 0 THEN t + 360 ELSE t
        t2 == IF t1 > 360 THEN t1 - 360 ELSE t1
    IN  IF t2 < 60 THEN 60 * p + (q - p) * t2
        ELSE IF t2 < 180 THEN 60 * q
        ELSE IF t2 < 240 THEN 60 * p + (q - p) * (240 - t2)
        ELSE 60 * p

\* Math.round(c * 255) for c a count of 1/6000000: 255 / 6000000 = 17 / 400000
Channel(c) == Round(17 * c, 400000)

hslToRgb(h, s, l) ==
    IF s = 0
    THEN LET grey == Round(255 * l, 100)
         IN  [r |-> grey, g |-> grey, b |-> grey]
    ELSE LET q == IF l < 50 THEN l * (1000 + s)
                  ELSE 1000 * l + 100 * s - l * s
             p == 2000 * l - q
         IN  [r |-> Channel(hue2rgb(p, q, h + 120)),
              g |-> Channel(hue2rgb(p, q, h)),
              b |-> Channel(hue2rgb(p, q, h - 120))]


(***************************************************************************)
(* rgbToHex (lines 135-142); r, g, b in tenths                             *)
(***************************************************************************)
\* toHex without line 138: a value below 16 is not zero-padded
toHex_NoPad(n) == toString16(Max(0, Min(255, Round(n, 10))))

\* toHex with Math.floor in place of Math.round
toHex_Floor(n) ==
    LET hex == toString16(Max(0, Min(255, n \div 10)))
    IN  IF Len(hex) = 1 THEN <<"0">> \o hex ELSE hex

\* lines 136-139; n in tenths
toHex(n) ==
    LET hex == toString16(Max(0, Min(255, Round(n, 10))))
    IN  IF Len(hex) = 1 THEN <<"0">> \o hex ELSE hex

rgbToHex(r, g, b) == toUpperCase(<<"#">> \o toHex(r) \o toHex(g) \o toHex(b))

(***************************************************************************)
(* generateShades (lines 148-164)                                          *)
(***************************************************************************)
\* the schedule of line 156 with 20 and 25 exchanged
lightnessValues_Swapped == <<95, 85, 75, 65, 55, 45, 35, 20, 25, 15, 10, 5>>

lightnessValues == <<95, 85, 75, 65, 55, 45, 35, 25, 20, 15, 10, 5>>

\* generateShades handing hslToRgb full saturation instead of hsl.s
generateShades_FullSaturation(hex) ==
    LET rgb == hexToRgb(hex)
    IN  IF rgb = Null THEN <<>>
        ELSE LET hsl == rgbToHsl(rgb.r, rgb.g, rgb.b)
                 shade(lightness) ==
                     LET c == hslToRgb(hsl.h, 1000, lightness)
                     IN  rgbToHex(10 * c.r, 10 * c.g, 10 * c.b)
             IN  [i \in 1..Len(lightnessValues) |-> shade(lightnessValues[i])]

generateShades(hex) ==
    LET rgb == hexToRgb(hex)
    IN  IF rgb = Null THEN <<>>
        ELSE LET hsl == rgbToHsl(rgb.r, rgb.g, rgb.b)
                 shade(lightness) ==
                     LET c == hslToRgb(hsl.h, 10 * hsl.s, lightness)
                     IN  rgbToHex(10 * c.r, 10 * c.g, 10 * c.b)
             IN  [i \in 1..Len(lightnessValues) |-> shade(lightnessValues[i])]

(***************************************************************************)
(* getColorBrightness (lines 170-178)                                      *)
(***************************************************************************)
\* line 175, luminance > 0.5, in doubles.  Times 255000 the exact luminance
\* is 299 r + 587 g + 114 b against 127500; the double sum is rounded after
\* every operation and its error is far below 1/255000, so the two
\* comparisons differ only where the exact sum is 127500.  Of the 114
\* triples of 0..255 with that sum the double expression evaluates to 0.5
\* for 113 and to 0.5000000000000001 for (218, 58, 248).
DoubleAboveHalf == {[r |-> 218, g |-> 58, b |-> 248]}

luminanceAboveHalf(rgb) ==
    LET exact == 299 * rgb.r + 587 * rgb.g + 114 * rgb.b
    IN  exact > 127500 \/ (exact = 127500 /\ rgb \in DoubleAboveHalf)

\* getColorBrightness with the other default at line 172
getColorBrightness_LightDefault(hex) ==
    LET rgb == hexToRgb(hex)
    IN  IF rgb = Null THEN "light"
        ELSE IF luminanceAboveHalf(rgb) THEN "light" ELSE "dark"

getColorBrightness(hex) ==
    LET rgb == hexToRgb(hex)
    IN  IF rgb = Null THEN "dark"
        ELSE IF luminanceAboveHalf(rgb) THEN "light" ELSE "dark"

(***************************************************************************)
(* generatePaletteFromBase (lines 184-235)                                 *)
(***************************************************************************)
\* the palette of lines 190-196 with the roles of its last two entries
\* exchanged
FallbackPalette_RolesExchanged ==
    << [hex |-> <<"#", "3", "B", "8", "2", "F", "6">>, label |-> "Primary", role |-> "primary"],
       [hex |-> <<"#", "1", "0", "B", "9", "8", "1">>, label |-> "Accent", role |-> "accent"],
       [hex |-> <<"#", "F", "9", "F", "A", "F", "B">>, label |-> "Light Background", role |-> "background"],
       [hex |-> <<"#", "1", "F", "2", "9", "3", "7">>, label |-> "Dark Text", role |-> "other"],
       [hex |-> <<"#", "6", "3", "6", "6", "F", "1">>, label |-> "Secondary", role |-> "text"] >>

\* the palette of lines 190-196 with another accent
FallbackPalette_OtherAccent ==
    << [hex |-> <<"#", "3", "B", "8", "2", "F", "6">>, label |-> "Primary", role |-> "primary"],
       [hex |-> <<"#", "1", "0", "B", "9", "8", "0">>, label |-> "Accent", role |-> "accent"],
       [hex |-> <<"#", "F", "9", "F", "A", "F", "B">>, label |-> "Light Background", role |-> "background"],
       [hex |-> <<"#", "1", "F", "2", "9", "3", "7">>, label |-> "Dark Text", role |-> "text"],
       [hex |-> <<"#", "6", "3", "6", "6", "F", "1">>, label |-> "Secondary", role |-> "other"] >>

\* lines 190-196
FallbackPalette ==
    << [hex |-> <<"#", "3", "B", "8", "2", "F", "6">>, label |-> "Primary", role |-> "primary"],
       [hex |-> <<"#", "1", "0", "B", "9", "8", "1">>, label |-> "Accent", role |-> "accent"],
       [hex |-> <<"#", "F", "9", "F", "A", "F", "B">>, label |-> "Light Background", role |-> "background"],
       [hex |-> <<"#", "1", "F", "2", "9", "3", "7">>, label |-> "Dark Text", role |-> "text"],
       [hex |-> <<"#", "6", "3", "6", "6", "F", "1">>, label |-> "Secondary", role |-> "other"] >>

\* hslToRgb of an {h, s, l} whose s is in tenths, then rgbToHex of its
\* channels (lines 206-207, 211-212, 216-217, 225-226)
HslHex(h, s, l) ==
    LET c == hslToRgb(h, s, l)
    IN  rgbToHex(10 * c.r, 10 * c.g, 10 * c.b)

\* the {h, s, l} of lines 205, 210, 215 and 220-224, s in tenths
\* line 205 with a quarter turn for the half turn
accentHsl_QuarterTurn(hsl) == [h |-> (hsl.h + 90) % 360, s |-> 10 * hsl.s, l |-> hsl.l]

accentHsl(hsl) == [h |-> (hsl.h + 180) % 360, s |-> 10 * hsl.s, l |-> hsl.l]

\* line 210 without the floor of 10
backgroundHsl_NoFloor(hsl) == [h |-> hsl.h, s |-> 2 * hsl.s, l |-> 95]

\* s = Math.max(10, hsl.s * 0.2)
backgroundHsl(hsl) == [h |-> hsl.h, s |-> Max(100, 2 * hsl.s), l |-> 95]

\* line 215 with Math.max for Math.min
textHsl_Max(hsl) == [h |-> hsl.h, s |-> Max(150, 3 * hsl.s), l |-> 15]

\* s = Math.min(15, hsl.s * 0.3)
textHsl(hsl) == [h |-> hsl.h, s |-> Min(150, 3 * hsl.s), l |-> 15]

\* lines 220-224 without the 10 added to the lightness
secondaryHsl_SameLightness(hsl) ==
    [h |-> (hsl.h + 30) % 360,
     s |-> 10 * Max(40, Min(80, hsl.s)),
     l |-> Max(35, Min(65, hsl.l))]

secondaryHsl(hsl) ==
    [h |-> (hsl.h + 30) % 360,
     s |-> 10 * Max(40, Min(80, hsl.s)),
     l |-> Max(35, Min(65, hsl.l + 10))]

generatePaletteFromBase(baseHex) ==
    LET rgb == hexToRgb(baseHex)
    IN  IF rgb = Null THEN FallbackPalette
        ELSE
          LET hsl == rgbToHsl(rgb.r, rgb.g, rgb.b)
              hexOf(x) == HslHex(x.h, x.s, x.l)
              primary == baseHex                                      \* line 202
              accent == hexOf(accentHsl(hsl))
              background == hexOf(backgroundHsl(hsl))
              text == hexOf(textHsl(hsl))
              secondary == hexOf(secondaryHsl(hsl))
          IN  << [hex |-> primary, label |-> "Primary", role |-> "primary"],
                 [hex |-> accent, label |-> "Accent", role |-> "accent"],
                 [hex |-> background, label |-> "Light Background", role |-> "background"],
                 [hex |-> text, label |-> "Dark Text", role |-> "text"],
                 [hex |-> secondary, label |-> "Secondary", role |-> "other"] >>

(***************************************************************************)
(* Inputs                                                                  *)
(***************************************************************************)
MaxLen == 4         \* longest string drawn over the whole Alphabet
MaxDigits == 7      \* longest run of hexadecimal digits drawn
MaxPad == 0         \* most blanks drawn on either side of a formed string
Edge == 3           \* channels drawn within Edge of 0 and of 255
Over == 3           \* numbers drawn down to -Over and up to 255 + Over

\* a blank, the hash, a digit, a lower-case and an upper-case hexadecimal
\* letter, and a letter that is no hexadecimal digit
Alphabet == {" ", "#", "1", "d", "E", "g"}

HexSample == {"1", "d", "E"}

StringsUpTo(S, n) == UNION {[1..k -> S] : k \in 0..n}

Pad(n) == [i \in 1..n |-> " "]

\* every string over Alphabet up to MaxLen
AnyStrings == StringsUpTo(Alphabet, MaxLen)

\* blanks, an optional '#', up to MaxDigits hexadecimal digits, blanks
FormedStrings ==
    {Pad(i) \o pre \o body \o Pad(j) :
        i \in 0..MaxPad, j \in 0..MaxPad, pre \in {<<>>, <<"#">>},
        body \in StringsUpTo(HexSample, MaxDigits)}

\* the strings spec.md and the README use as examples
ExampleStrings ==
    { <<"#", "a", "b", "c">>, <<"#", "a", "a", "b", "b", "c", "c">>, <<"#", "A", "A", "B", "B", "C", "C">>, <<"#", "1", "2", "3", "4", "5">>, <<"#", "g", "g", "g", "g", "g", "g">>, <<"#", "#", "a", "b", "c">>,
      <<"#", "3", "B", "8", "2", "F", "6">>, <<"#", "F", "F", "0", "0", "0", "0">>, <<"#", "F", "F", "F", "F", "F", "F">>, <<"#", "0", "0", "0", "0", "0", "0">>, <<"#", "D", "D", "F", "2", "4", "7">>,
      <<"n", "o", "t", "-", "a", "-", "c", "o", "l", "o", "r">>, <<"\t", "#", "a", "b", "c", "\n">>,
      <<" ", "#", "1", "d", "E", "1", "d", "E", " ">>, <<" ", " ", "d", "d", "f", "2", "4", "7", "\n">> }

\* colours at and next to luminance 0.5 (line 177): (218, 58, 248) and
\* (0, 204, 68) have exactly 0.5, the greys 127 and 128 lie on either side
BoundaryStrings ==
    { <<"#", "D", "A", "3", "A", "F", "8">>, <<"#", "0", "0", "C", "C", "4", "4">>,
      <<"#", "7", "F", "7", "F", "7", "F">>, <<"#", "8", "0", "8", "0", "8", "0">> }

HexInputs == AnyStrings \cup FormedStrings \cup ExampleStrings \cup BoundaryStrings

\* channel values near the ends of 0..255, at its middle, and the pair
\* 228, 230
Channels == (0..Edge) \cup {127, 128, 228, 230} \cup ((255 - Edge)..255)

RgbInputs == [r : Channels, g : Channels, b : Channels]

\* numbers in tenths: every tenth from -Over to 255 + Over in one channel,
\* the other two channels among -5, 15, 255 and 300
Wide == (-10 * Over)..(10 * (255 + Over))

Anchors == {-50, 150, 2550, 3000}

NumberInputs ==
    [r : Wide, g : Anchors, b : Anchors]
    \cup [r : Anchors, g : Wide, b : Anchors]
    \cup [r : Anchors, g : Anchors, b : Wide]

(***************************************************************************)
(* A caller of the string-facing functions: it holds a string and applies  *)
(* one of the five functions to it.                                        *)
(***************************************************************************)
Init ==
    /\ fn = "none"
    /\ arg \in HexInputs
    /\ ret = Null
    /\ AppNotStarted

CallNormalizeHex ==
    /\ fn = "none"
    /\ fn' = "normalizeHex"
    /\ ret' = normalizeHex(arg)
    /\ UNCHANGED <<arg, appVars>>

CallHexToRgb ==
    /\ fn = "none"
    /\ fn' = "hexToRgb"
    /\ ret' = hexToRgb(arg)
    /\ UNCHANGED <<arg, appVars>>

CallGenerateShades ==
    /\ fn = "none"
    /\ fn' = "generateShades"
    /\ ret' = generateShades(arg)
    /\ UNCHANGED <<arg, appVars>>

CallGetColorBrightness ==
    /\ fn = "none"
    /\ fn' = "getColorBrightness"
    /\ ret' = getColorBrightness(arg)
    /\ UNCHANGED <<arg, appVars>>

CallGeneratePaletteFromBase ==
    /\ fn = "none"
    /\ fn' = "generatePaletteFromBase"
    /\ ret' = generatePaletteFromBase(arg)
    /\ UNCHANGED <<arg, appVars>>

Next ==
    \/ CallNormalizeHex
    \/ CallHexToRgb
    \/ CallGenerateShades
    \/ CallGetColorBrightness
    \/ CallGeneratePaletteFromBase

Spec == Init /\ [][Next]_vars

(***************************************************************************)
(* A caller that converts a decoded colour to HSL and back.                *)
(***************************************************************************)
InitHsl ==
    /\ fn = "none"
    /\ arg \in RgbInputs
    /\ ret = Null
    /\ AppNotStarted

CallRgbToHsl ==
    /\ fn = "none"
    /\ fn' = "rgbToHsl"
    /\ ret' = rgbToHsl(arg.r, arg.g, arg.b)
    /\ UNCHANGED <<arg, appVars>>

\* the HSL triple goes back through hslToRgb; arg stays the original colour
ThenHslToRgb ==
    /\ fn = "rgbToHsl"
    /\ fn' = "hslToRgb"
    /\ ret' = hslToRgb(ret.h, 10 * ret.s, ret.l)
    /\ UNCHANGED <<arg, appVars>>

NextHsl == CallRgbToHsl \/ ThenHslToRgb

SpecHsl == InitHsl /\ [][NextHsl]_vars

(***************************************************************************)
(* A caller that encodes three numbers as a hex string and decodes it.     *)
(***************************************************************************)
InitRgbHex ==
    /\ fn = "none"
    /\ arg \in NumberInputs
    /\ ret = Null
    /\ AppNotStarted

CallRgbToHex ==
    /\ fn = "none"
    /\ fn' = "rgbToHex"
    /\ ret' = rgbToHex(arg.r, arg.g, arg.b)
    /\ UNCHANGED <<arg, appVars>>

\* the string goes back through hexToRgb; arg stays the three numbers
ThenHexToRgb ==
    /\ fn = "rgbToHex"
    /\ fn' = "hexToRgb"
    /\ ret' = hexToRgb(ret)
    /\ UNCHANGED <<arg, appVars>>

NextRgbHex == CallRgbToHex \/ ThenHexToRgb

SpecRgbHex == InitRgbHex /\ [][NextRgbHex]_vars

(***************************************************************************)
(* storage.ts                                                              *)
(***************************************************************************)
\* What localStorage.getItem returns (line 79) is a record: NoItem for
\* null, the collection under the field json for the text JSON.stringify
\* makes of it (line 103), and any other record for a text JSON.parse
\* (line 88) throws on.
NoItem == [item |-> "null"]

JSONstringify(value) == [json |-> value]

IsJSON(text) == DOMAIN text = {"json"}

JSONparse(text) == text.json

\* a JSON number in the place of a string is a one-element sequence holding
\* its digits, which no string is: a string is a sequence of single characters
\* the values modelled that typeof does not call 'string'
NonStrings == {<<"42">>}

\* typeof v === 'string'
IsString(v) == v \notin NonStrings

\* generateId (lines 15-21): the n-th id
generateId(n) == <<n>>

\* createDefaultPalette (lines 26-71); n is the serial number of its first
\* generateId, now the time stamp it reads
createDefaultPalette(n, now) ==
    [id |-> generateId(n + 5),
     name |-> <<"F", "i", "n", "M", "o", "d", "e", "l", "e", "r", " ", "G", "3">>,
     brand |-> "FinModeler",
     notes |-> "Default example palette - feel free to edit or delete!",
     colors |->
        << [id |-> generateId(n), hex |-> <<"#", "D", "D", "F", "2", "4", "7">>, label |-> "Lemon Lime", role |-> "accent"],
           [id |-> generateId(n + 1), hex |-> <<"#", "2", "2", "2", "6", "2", "B">>, label |-> "Shadow Grey", role |-> "text"],
           [id |-> generateId(n + 2), hex |-> <<"#", "F", "2", "F", "2", "F", "2">>, label |-> "White Smoke", role |-> "background"],
           [id |-> generateId(n + 3), hex |-> <<"#", "2", "D", "6", "A", "4", "F">>, label |-> "Dark Emerald", role |-> "primary"],
           [id |-> generateId(n + 4), hex |-> <<"#", "0", "0", "7", "7", "B", "6">>, label |-> "Bright Teal Blue", role |-> "other"] >>,
     createdAt |-> now,
     updatedAt |-> now]

\* savePalettes (lines 101-109): the text stored under the key
savePalettes(list) == JSONstringify(list)

\* loadPalettes returning a default palette it does not store
loadPalettes_NotStored(stored, n, now) ==
    IF IsJSON(stored)
    THEN [palettes |-> JSONparse(stored), storage |-> stored, made |-> FALSE]
    ELSE [palettes |-> <<createDefaultPalette(n, now)>>,
          storage |-> stored,
          made |-> TRUE]

\* loadPalettes (lines 77-96): what it returns, what it leaves stored, and
\* whether it made a default palette
loadPalettes(stored, n, now) ==
    IF stored = NoItem
    THEN [palettes |-> <<createDefaultPalette(n, now)>>,
          storage |-> savePalettes(<<createDefaultPalette(n, now)>>),
          made |-> TRUE]
    ELSE IF IsJSON(stored)
    THEN [palettes |-> JSONparse(stored), storage |-> stored, made |-> FALSE]
    ELSE [palettes |-> <<createDefaultPalette(n, now)>>,
          storage |-> stored,
          made |-> TRUE]

(***************************************************************************)
(* PaletteEditor.tsx: the updaters of editedPalette (lines 39-104)         *)
(***************************************************************************)
\* lines 39-45
updateField(prev, field, value, now) ==
    [prev EXCEPT ![field] = value, !.updatedAt = now]

\* updateColor merging the updates into every colour
updateColor_EveryColor(prev, colorId, updates, now) ==
    LET merged(color) ==
            [k \in DOMAIN color |->
                IF k \in DOMAIN updates THEN updates[k] ELSE color[k]]
    IN  [prev EXCEPT
            !.colors = [i \in 1..Len(prev.colors) |-> merged(prev.colors[i])],
            !.updatedAt = now]

\* lines 48-56; updates is a record with some of the fields of a colour
updateColor(prev, colorId, updates, now) ==
    LET merged(color) ==
            [k \in DOMAIN color |->
                IF k \in DOMAIN updates THEN updates[k] ELSE color[k]]
    IN  [prev EXCEPT
            !.colors = [i \in 1..Len(prev.colors) |->
                           IF prev.colors[i].id = colorId
                           THEN merged(prev.colors[i]) ELSE prev.colors[i]],
            !.updatedAt = now]

\* lines 59-72
addColor(prev, n, now) ==
    LET newColor == [id |-> generateId(n), hex |-> <<"#", "3", "B", "8", "2", "F", "6">>,
                     label |-> "", role |-> "other"]
    IN  [prev EXCEPT !.colors = Append(prev.colors, newColor), !.updatedAt = now]

\* lines 75-81
deleteColor(prev, colorId, now) ==
    [prev EXCEPT
        !.colors = SelectSeq(prev.colors, LAMBDA color : color.id # colorId),
        !.updatedAt = now]

\* colors.findIndex (line 87), counted from 1; 0 for none
findIndex(colors, colorId) ==
    IF \E i \in 1..Len(colors) : colors[i].id = colorId
    THEN CHOOSE i \in 1..Len(colors) :
             /\ colors[i].id = colorId
             /\ \A j \in 1..(i - 1) : colors[j].id # colorId
    ELSE 0

\* moveColor stamping and swapping also when the neighbour is out of range
moveColor_Unguarded(prev, colorId, direction, now) ==
    LET colors == prev.colors
        index == findIndex(colors, colorId)
        newIndex == IF direction = "left" THEN Max(1, index - 1)
                    ELSE Min(Len(colors), index + 1)
    IN  IF index = 0 THEN prev
        ELSE [prev EXCEPT
                 !.colors = [colors EXCEPT ![index] = colors[newIndex],
                                           ![newIndex] = colors[index]],
                 !.updatedAt = now]

\* lines 84-104
moveColor(prev, colorId, direction, now) ==
    LET colors == prev.colors
        index == findIndex(colors, colorId)
        newIndex == IF direction = "left" THEN index - 1 ELSE index + 1
    IN  IF index = 0 THEN prev
        ELSE IF newIndex < 1 \/ newIndex > Len(colors) THEN prev
        ELSE [prev EXCEPT
                 !.colors = [colors EXCEPT ![index] = colors[newIndex],
                                           ![newIndex] = colors[index]],
                 !.updatedAt = now]

(***************************************************************************)
(* The application: what is stored when it starts, and what the user and   *)
(* React do                                                                *)
(***************************************************************************)
MaxClock == 3       \* time stamps read after the application has started
MaxColors == 3      \* colours a palette is let grow to

\* a collection saved by an earlier session, which made the ids 1 to 3 at
\* time 0: one palette of two colours
StoredBefore ==
    << [id |-> generateId(1),
        name |-> <<"A">>,
        brand |-> "",
        notes |-> "",
        colors |->
           << [id |-> generateId(2), hex |-> <<"#", "D", "D", "F", "2", "4", "7">>, label |-> "", role |-> "primary"],
              [id |-> generateId(3), hex |-> <<"#", "2", "2", "2", "6", "2", "B">>, label |-> "Ink", role |-> "text"] >>,
        createdAt |-> 0,
        updatedAt |-> 0] >>

\* text under the key that is no JSON
Unparsable == [item |-> "{"]

StorageInputs == {NoItem, Unparsable, JSONstringify(StoredBefore)}

\* what the user types or picks
NameInputs == {<<"B">>, <<" ">>}

TextInputs == {"x"}

HexUpdates == {<<"#", "1", "1", "D", "D", "E", "E">>}

RoleInputs == {"accent", "other"}

FieldInputs ==
    {<<"name", v>> : v \in NameInputs}
        \cup {<<"brand", v>> : v \in TextInputs}
        \cup {<<"notes", v>> : v \in TextInputs}

ColorUpdates ==
    {[hex |-> v] : v \in HexUpdates}
        \cup {[label |-> v] : v \in TextInputs}
        \cup {[role |-> v] : v \in RoleInputs}

InitApp ==
    /\ fn = "none"
    /\ arg = <<>>
    /\ ret = Null
    /\ storage \in StorageInputs
    /\ loaded = FALSE
    /\ palettes = <<>>
    /\ currentView = "list"
    /\ selectedPaletteId = Null
    /\ editedPalette = Null
    /\ toast = ""
    /\ nextId = 4
    /\ clock = 1
    /\ showImportModal = FALSE
    /\ showRestoreModal = FALSE
    /\ download = Null
    /\ shadesModal = Null
    /\ hexInput = <<>>
    /\ focus = 0

\* the editor is rendered (part_003 line 539) and no modal lies over it
RowsShown ==
    loaded /\ currentView = "editor" /\ editedPalette # Null /\ shadesModal = Null

\* the editor as the user finds it for a click or a key outside the hex
\* fields: a hex field that held the focus has lost it before, which is the
\* step of its onBlur
EditorShown == RowsShown /\ focus = 0

\* the list is rendered (part_003 line 530) and no modal lies over it
ListShown ==
    loaded /\ currentView = "list" /\ ~showImportModal /\ ~showRestoreModal

\* ColorRow's useState(color.hex) (PaletteEditor.tsx line 306) in the rows
\* of an editor that mounts
mountRows(palette) == [i \in 1..Len(palette.colors) |-> palette.colors[i].hex]

\* part_003 lines 437-440: the effect that runs once after the first render
LoadEffect ==
    /\ ~loaded
    /\ LET r == loadPalettes(storage, nextId, clock)
       IN  /\ palettes' = r.palettes
           /\ storage' = r.storage
           /\ nextId' = IF r.made THEN nextId + 6 ELSE nextId
           /\ clock' = IF r.made THEN clock + 1 ELSE clock
    /\ loaded' = TRUE
    /\ UNCHANGED <<fn, arg, ret, currentView, selectedPaletteId, editedPalette, toast,
                   listVars, download, rowVars>>

\* part_003 lines 446-449, and the editor mounting with useState(palette)
\* (PaletteEditor.tsx line 35)
handleSelectPalette ==
    /\ ListShown
    /\ \E i \in 1..Len(palettes) :
           /\ selectedPaletteId' = palettes[i].id
           /\ editedPalette' = palettes[i]
           /\ hexInput' = mountRows(palettes[i])
    /\ currentView' = "editor"
    /\ UNCHANGED <<fn, arg, ret, storage, loaded, palettes, toast, nextId, clock,
                   listVars, download, shadesModal, focus>>

\* the hex fields after the colours of the editor changed to next: a row
\* is keyed by the id of its colour (PaletteEditor.tsx line 251), so a colour
\* that stays keeps the state of its row and a new colour mounts a row
keepRows(prev, inputs, next) ==
    [i \in 1..Len(next.colors) |->
        IF findIndex(prev.colors, next.colors[i].id) = 0
        THEN next.colors[i].hex
        ELSE inputs[findIndex(prev.colors, next.colors[i].id)]]

\* the editor sets its state and reads the clock once
Edit(next) ==
    /\ EditorShown
    /\ clock < MaxClock
    /\ editedPalette' = next
    /\ clock' = clock + 1
    /\ UNCHANGED <<fn, arg, ret, storage, loaded, palettes, currentView,
                   selectedPaletteId, toast, listVars, download, shadesModal, focus>>

\* PaletteEditor.tsx lines 206, 217, 227
UpdateField ==
    /\ \E f \in FieldInputs : Edit(updateField(editedPalette, f[1], f[2], clock))
    /\ UNCHANGED <<nextId, hexInput>>

\* lines 255, 369, 380, and a hex chosen in the colour picker, which also
\* sets the hex field (part_004 lines 394-399)
UpdateColor ==
    /\ EditorShown
    /\ \E i \in 1..Len(editedPalette.colors) : \E updates \in ColorUpdates :
           /\ Edit(updateColor(editedPalette, editedPalette.colors[i].id, updates, clock))
           /\ hexInput' = IF "hex" \in DOMAIN updates
                          THEN [hexInput EXCEPT ![i] = updates.hex]
                          ELSE hexInput
    /\ UNCHANGED nextId

\* line 241
AddColor ==
    /\ EditorShown
    /\ Len(editedPalette.colors) < MaxColors
    /\ Edit(addColor(editedPalette, nextId, clock))
    /\ hexInput' = keepRows(editedPalette, hexInput, addColor(editedPalette, nextId, clock))
    /\ nextId' = nextId + 1

\* lines 256 and 420
DeleteColor ==
    /\ EditorShown
    /\ \E i \in 1..Len(editedPalette.colors) :
           /\ Edit(deleteColor(editedPalette, editedPalette.colors[i].id, clock))
           /\ hexInput' = keepRows(editedPalette, hexInput,
                                   deleteColor(editedPalette, editedPalette.colors[i].id, clock))
    /\ UNCHANGED nextId

\* lines 257, 402-413: the arrow of a first colour to the left and of a
\* last colour to the right is disabled
MoveColor ==
    /\ EditorShown
    /\ \E i \in 1..Len(editedPalette.colors) : \E direction \in {"left", "right"} :
           /\ ~(i = 1 /\ direction = "left")
           /\ ~(i = Len(editedPalette.colors) /\ direction = "right")
           /\ Edit(moveColor(editedPalette, editedPalette.colors[i].id, direction, clock))
           /\ hexInput' = keepRows(editedPalette, hexInput,
                                   moveColor(editedPalette, editedPalette.colors[i].id, direction, clock))
    /\ UNCHANGED nextId

\* part_003 lines 459-463
handleSavePalette(list, palette) ==
    [i \in 1..Len(list) |-> IF list[i].id = palette.id THEN palette ELSE list[i]]

\* PaletteEditor.tsx lines 107-115 with onSave = App.handleSavePalette;
\* name.trim() throws when the name is no string (a palette imported with a
\* number for its name) and the handler then changes nothing
handleSave ==
    /\ EditorShown
    /\ IsString(editedPalette.name)
    /\ IF trim(editedPalette.name) = <<>>
       THEN /\ toast' = "Palette name is required"
            /\ UNCHANGED <<palettes, storage>>
       ELSE /\ palettes' = handleSavePalette(palettes, editedPalette)
            /\ storage' = savePalettes(handleSavePalette(palettes, editedPalette))
            /\ toast' = "Palette saved!"
    /\ UNCHANGED <<fn, arg, ret, loaded, currentView, selectedPaletteId,
                   editedPalette, nextId, clock, listVars, download, rowVars>>

\* part_003 lines 487-490; the editor unmounts
handleBack ==
    /\ EditorShown
    /\ currentView' = "list"
    /\ selectedPaletteId' = Null
    /\ editedPalette' = Null
    /\ hexInput' = <<>>
    /\ UNCHANGED <<fn, arg, ret, storage, loaded, palettes, toast, nextId, clock,
                   listVars, download, shadesModal, focus>>

NextApp ==
    \/ LoadEffect
    \/ handleSelectPalette
    \/ UpdateField
    \/ UpdateColor
    \/ AddColor
    \/ DeleteColor
    \/ MoveColor
    \/ handleSave
    \/ handleBack

SpecApp == InitApp /\ [][NextApp]_vars

(***************************************************************************)
(* Backup and restore (src/unnamed/part_001, the later storage.ts) and     *)
(* texts that did not come from savePalettes.                              *)
(*                                                                         *)
(* A text is a record: [json |-> list] is the JSON text of an array,       *)
(* [object |-> o] the JSON text of a single object, [item |-> s] a text    *)
(* JSON.parse rejects.  An array item that is no object is a record with   *)
(* the one field typeof; an object that lacks a property is a record       *)
(* without that field.  A JSON number in the place of a name is a one-     *)
(* element sequence holding its digits, which no string is, since a string *)
(* is a sequence of single characters.                                     *)
(***************************************************************************)
\* Array.isArray(JSON.parse(text)) for a text JSON.parse accepts
IsArrayText(text) == DOMAIN text = {"json"}

\* exportBackup (part_001 lines 121-138): the content of the file it saves
exportBackup(stored) ==
    IF stored = NoItem THEN JSONstringify(<<>>) ELSE stored

\* the checks of one item (part_001 lines 158-168): the message of the
\* error thrown, "" for none
itemError(palette) ==
    IF "typeof" \in DOMAIN palette
    THEN "Invalid backup format: each item must be a palette object"
    ELSE IF \/ "id" \notin DOMAIN palette
            \/ "name" \notin DOMAIN palette
            \/ ~IsString(palette.name)
    THEN "Invalid backup format: each palette must have an id and name"
    ELSE IF "colors" \notin DOMAIN palette
    THEN "Invalid backup format: each palette must have a colors array"
    ELSE ""

\* importBackup (part_001 lines 144-171): the list it returns, or the
\* message of the error it throws
importBackup(jsonContent) ==
    IF DOMAIN jsonContent = {"item"}
    THEN [ok |-> FALSE, message |-> "Invalid JSON format: please check your backup file"]
    ELSE IF ~IsArrayText(jsonContent)
    THEN [ok |-> FALSE, message |-> "Invalid backup format: expected an array of palettes"]
    ELSE LET parsed == jsonContent.json
             bad == {i \in 1..Len(parsed) : itemError(parsed[i]) # ""}
         IN  IF bad = {}
             THEN [ok |-> TRUE, palettes |-> parsed]
             ELSE [ok |-> FALSE,
                   message |-> itemError(parsed[CHOOSE i \in bad : \A j \in bad : i <= j])]

(***************************************************************************)
(* The list of palettes and the buttons of the editor that change the      *)
(* collection (part_003 lines 451-485 and 726-811, PaletteEditor.tsx lines *)
(* 107-147)                                                                *)
(***************************************************************************)
MaxPalettes == 2    \* palettes the collection is let grow to

\* a colour of a pasted palette: it has no id
PastedColor == [hex |-> <<"#", "1", "1", "D", "D", "E", "E">>, label |-> "", role |-> "other"]

PastedPalette(name) ==
    [name |-> name, brand |-> "", notes |-> "", colors |-> <<PastedColor>>]

\* what the user pastes into the import modal: no JSON, an array, a palette,
\* a palette whose name is the number 42, a palette with an empty name and
\* an object without colors
ImportInputs ==
    {Unparsable,
     JSONstringify(<<>>),
     [object |-> PastedPalette(<<"C">>)],
     [object |-> PastedPalette(<<"42">>)],
     [object |-> PastedPalette(<<>>)],
     [object |-> [name |-> <<"C">>]]}

\* what the user pastes into the restore modal besides a file of
\* exportBackup: no JSON, a single object, arrays with an item that is a
\* number, that lacks an id, whose name is a number, that lacks colors, one
\* of them after a good item, the empty array and a backup of an earlier
\* session
RestoreInputs ==
    {Unparsable,
     [object |-> PastedPalette(<<"C">>)],
     JSONstringify(<<[typeof |-> "number"]>>),
     JSONstringify(<<[name |-> <<"C">>, colors |-> <<>>]>>),
     JSONstringify(<<[id |-> generateId(1), name |-> <<"42">>, colors |-> <<>>]>>),
     JSONstringify(<<[id |-> generateId(1), name |-> <<"C">>]>>),
     JSONstringify(StoredBefore \o <<[typeof |-> "number"]>>),
     JSONstringify(<<>>),
     JSONstringify(StoredBefore)}

\* the colours of a palette with fresh ids, the first of them the n-th
\* (part_003 lines 742-745 and 780-783, PaletteEditor.tsx lines 129-132)
freshColors(colors, n) ==
    [i \in 1..Len(colors) |->
        [k \in DOMAIN colors[i] \cup {"id"} |->
            IF k = "id" THEN generateId(n + i - 1) ELSE colors[i][k]]]

\* the palette handleNewPalette makes (part_003 lines 731-757)
newPalette(list, n, now) ==
    [id |-> generateId(n),
     name |-> <<"N", "e", "w", " ", "P", "a", "l", "e", "t", "t", "e">>,
     brand |-> IF list = <<>> THEN "" ELSE list[Len(list)].brand,
     notes |-> "",
     colors |-> IF list = <<>>
                THEN <<[id |-> generateId(n + 1), hex |-> <<"#", "3", "B", "8", "2", "F", "6">>,
                        label |-> "Blue", role |-> "primary"]>>
                ELSE freshColors(list[Len(list)].colors, n + 1),
     createdAt |-> now,
     updatedAt |-> now]

\* the palette handleImport makes of a parsed object (part_003 lines 775-786)
importedPalette(imported, n, now) ==
    [id |-> generateId(n),
     name |-> imported.name,
     brand |-> imported.brand,
     notes |-> imported.notes,
     colors |-> freshColors(imported.colors, n + 1),
     createdAt |-> now,
     updatedAt |-> now]

\* the copy handleSaveAsCopy makes (PaletteEditor.tsx lines 124-136)
copyOf(edited, n, now) ==
    [edited EXCEPT
        !.id = generateId(n),
        !.name = edited.name \o <<" ", "(", "C", "o", "p", "y", ")">>,
        !.colors = freshColors(edited.colors, n + 1),
        !.createdAt = now,
        !.updatedAt = now]

\* App.handleCreatePalette (part_003 lines 451-457); the list unmounts and
\* the editor mounts on the new palette
handleCreatePalette(palette) ==
    /\ palettes' = Append(palettes, palette)
    /\ storage' = savePalettes(Append(palettes, palette))
    /\ selectedPaletteId' = palette.id
    /\ currentView' = "editor"
    /\ editedPalette' = palette
    /\ hexInput' = mountRows(palette)
    /\ showImportModal' = FALSE
    /\ showRestoreModal' = FALSE

\* part_003 lines 731-760
handleNewPalette ==
    /\ ListShown
    /\ clock < MaxClock
    /\ Len(palettes) < MaxPalettes
    /\ handleCreatePalette(newPalette(palettes, nextId, clock))
    /\ nextId' = nextId + 1 + Len(newPalette(palettes, nextId, clock).colors)
    /\ clock' = clock + 1
    /\ UNCHANGED <<fn, arg, ret, loaded, toast, download, shadesModal, focus>>

\* the Import button (part_003 line 857)
OpenImport ==
    /\ ListShown
    /\ showImportModal' = TRUE
    /\ UNCHANGED <<fn, arg, ret, storage, loaded, palettes, currentView, selectedPaletteId,
                   editedPalette, toast, nextId, clock, showRestoreModal, download, rowVars>>

\* part_003 lines 762-791, called by the import modal
handleImport ==
    /\ loaded
    /\ showImportModal
    /\ \E jsonText \in ImportInputs :
          IF DOMAIN jsonText = {"item"}
          THEN /\ toast' = "Failed to import: Invalid JSON"
               /\ UNCHANGED <<storage, palettes, currentView, selectedPaletteId,
                              editedPalette, nextId, clock, listVars, hexInput>>
          ELSE IF \/ IsArrayText(jsonText)
                  \/ "name" \notin DOMAIN jsonText.object
                  \/ jsonText.object.name = <<>>
                  \/ "colors" \notin DOMAIN jsonText.object
          THEN /\ toast' = "Invalid palette data"
               /\ UNCHANGED <<storage, palettes, currentView, selectedPaletteId,
                              editedPalette, nextId, clock, listVars, hexInput>>
          ELSE /\ clock < MaxClock
               /\ Len(palettes) < MaxPalettes
               /\ handleCreatePalette(importedPalette(jsonText.object, nextId, clock))
               /\ nextId' = nextId + 1 + Len(jsonText.object.colors)
               /\ clock' = clock + 1
               /\ toast' = "Palette imported successfully!"
    /\ UNCHANGED <<fn, arg, ret, loaded, download, shadesModal, focus>>

\* the import modal's onClose (part_003 line 911)
CloseImport ==
    /\ loaded
    /\ showImportModal
    /\ showImportModal' = FALSE
    /\ UNCHANGED <<fn, arg, ret, storage, loaded, palettes, currentView, selectedPaletteId,
                   editedPalette, toast, nextId, clock, showRestoreModal, download, rowVars>>

\* part_003 lines 793-800
handleBackup ==
    /\ ListShown
    /\ download' = exportBackup(storage)
    /\ toast' = "Backup downloaded!"
    /\ UNCHANGED <<fn, arg, ret, storage, loaded, palettes, currentView, selectedPaletteId,
                   editedPalette, nextId, clock, listVars, rowVars>>

\* the Restore button (part_003 line 850)
OpenRestore ==
    /\ ListShown
    /\ showRestoreModal' = TRUE
    /\ UNCHANGED <<fn, arg, ret, storage, loaded, palettes, currentView, selectedPaletteId,
                   editedPalette, toast, nextId, clock, showImportModal, download, rowVars>>

\* what the user can hand to the restore modal
RestoreContents == RestoreInputs \cup (IF download = Null THEN {} ELSE {download})

\* App.handleRestoreBackup keeping the list in memory only
handleRestoreBackup_NotSaved(restoredPalettes) ==
    /\ palettes' = restoredPalettes
    /\ storage' = storage
    /\ currentView' = "list"
    /\ selectedPaletteId' = Null

\* App.handleRestoreBackup (part_003 lines 480-485)
handleRestoreBackup(restoredPalettes) ==
    /\ palettes' = restoredPalettes
    /\ storage' = savePalettes(restoredPalettes)
    /\ currentView' = "list"
    /\ selectedPaletteId' = Null

\* the toast of a restore (part_003 line 807)
restoredToast(n) ==
    "Restored " \o ToString(n) \o (IF n = 1 THEN " palette!" ELSE " palettes!")

\* handleRestore closing the modal also when importBackup throws
handleRestore_AlwaysCloses(jsonContent) ==
    /\ loaded
    /\ showRestoreModal
    /\ IF importBackup(jsonContent).ok
       THEN /\ handleRestoreBackup(importBackup(jsonContent).palettes)
            /\ toast' = restoredToast(Len(importBackup(jsonContent).palettes))
       ELSE /\ toast' = importBackup(jsonContent).message
            /\ UNCHANGED <<storage, palettes, currentView, selectedPaletteId>>
    /\ showRestoreModal' = FALSE
    /\ UNCHANGED <<fn, arg, ret, loaded, editedPalette, nextId, clock, showImportModal,
                   download, rowVars>>

\* part_003 lines 802-811, called by the restore modal
handleRestore(jsonContent) ==
    /\ loaded
    /\ showRestoreModal
    /\ IF importBackup(jsonContent).ok
       THEN /\ handleRestoreBackup(importBackup(jsonContent).palettes)
            /\ showRestoreModal' = FALSE
            /\ toast' = restoredToast(Len(importBackup(jsonContent).palettes))
       ELSE /\ toast' = importBackup(jsonContent).message
            /\ UNCHANGED <<storage, palettes, currentView, selectedPaletteId,
                           showRestoreModal>>
    /\ UNCHANGED <<fn, arg, ret, loaded, editedPalette, nextId, clock, showImportModal,
                   download, rowVars>>

Restore == \E jsonContent \in RestoreContents : handleRestore(jsonContent)

\* the restore modal's onClose (part_003 line 919)
CloseRestore ==
    /\ loaded
    /\ showRestoreModal
    /\ showRestoreModal' = FALSE
    /\ UNCHANGED <<fn, arg, ret, storage, loaded, palettes, currentView, selectedPaletteId,
                   editedPalette, toast, nextId, clock, showImportModal, download, rowVars>>

\* the user retypes the name of the palette (PaletteEditor.tsx line 206)
Rename ==
    /\ \E v \in NameInputs : Edit(updateField(editedPalette, "name", v, clock))
    /\ UNCHANGED <<nextId, hexInput>>

\* PaletteEditor.tsx lines 118-139 with onSaveAsCopy = App.handleSaveAsCopy
\* (part_003 lines 465-470); name.trim() throws when the name is no string
\* and the handler then changes nothing.  The editor stays mounted: its
\* element has no key (part_003 line 540), so its state is kept
handleSaveAsCopy ==
    /\ EditorShown
    /\ IsString(editedPalette.name)
    /\ IF trim(editedPalette.name) = <<>>
       THEN /\ toast' = "Palette name is required"
            /\ UNCHANGED <<palettes, storage, selectedPaletteId, nextId, clock>>
       ELSE /\ clock < MaxClock
            /\ Len(palettes) < MaxPalettes
            /\ palettes' = Append(palettes, copyOf(editedPalette, nextId, clock))
            /\ storage' = savePalettes(Append(palettes, copyOf(editedPalette, nextId, clock)))
            /\ selectedPaletteId' = generateId(nextId)
            /\ nextId' = nextId + 1 + Len(editedPalette.colors)
            /\ clock' = clock + 1
            /\ toast' = "Palette copied!"
    /\ UNCHANGED <<fn, arg, ret, loaded, currentView, editedPalette, listVars, download,
                   rowVars>>

\* App.handleDeletePalette leaving the view and the selection alone
handleDeletePalette_StaysInEditor(paletteId) ==
    /\ palettes' = SelectSeq(palettes, LAMBDA p : p.id # paletteId)
    /\ storage' = savePalettes(SelectSeq(palettes, LAMBDA p : p.id # paletteId))
    /\ currentView' = currentView
    /\ selectedPaletteId' = selectedPaletteId

\* App.handleDeletePalette (part_003 lines 472-478)
handleDeletePalette(paletteId) ==
    /\ palettes' = SelectSeq(palettes, LAMBDA p : p.id # paletteId)
    /\ storage' = savePalettes(SelectSeq(palettes, LAMBDA p : p.id # paletteId))
    /\ currentView' = "list"
    /\ selectedPaletteId' = Null

\* PaletteEditor.tsx lines 142-147, the user confirming; the editor unmounts
handleDelete ==
    /\ EditorShown
    /\ handleDeletePalette(editedPalette.id)
    /\ editedPalette' = Null
    /\ hexInput' = <<>>
    /\ toast' = "Palette deleted"
    /\ UNCHANGED <<fn, arg, ret, loaded, nextId, clock, listVars, download, shadesModal, focus>>

\* the user makes, imports, copies, renames, saves and deletes palettes and
\* restores collections from files of other sessions
NextCollection ==
    \/ LoadEffect
    \/ handleNewPalette
    \/ OpenImport
    \/ handleImport
    \/ CloseImport
    \/ OpenRestore
    \/ Restore
    \/ CloseRestore
    \/ handleSelectPalette
    \/ Rename
    \/ handleSave
    \/ handleSaveAsCopy
    \/ handleDelete
    \/ handleBack

SpecCollection == InitApp /\ [][NextCollection]_vars

\* the user makes backups and restores them, or files of other sessions,
\* between making and deleting palettes
NextBackup ==
    \/ LoadEffect
    \/ handleNewPalette
    \/ handleBackup
    \/ OpenRestore
    \/ Restore
    \/ CloseRestore
    \/ handleSelectPalette
    \/ handleDelete
    \/ handleBack

SpecBackup == InitApp /\ [][NextBackup]_vars

(***************************************************************************)
(* The rows of the editor and the shades modal (PaletteEditor.tsx lines    *)
(* 296-430, part_004 lines 332-459, colorUtils.ts lines 237-402)           *)
(***************************************************************************)
\* what the user types into a hex field: a short form in mixed case and a
\* text that is no colour
HexTyped == {<<"#", "1", "d", "E">>, <<"g">>}

\* the shades of the modal the user picks from, counted from the lightest
ShadeInputs == {1, 6, 12}

\* a string of the code as a TLA+ string, for the text of a toast
RECURSIVE JoinChars(_)
JoinChars(s) == IF s = <<>> THEN "" ELSE s[1] \o JoinChars(Tail(s))

\* the user puts the cursor into the hex field of a row
FocusHex ==
    /\ EditorShown
    /\ \E i \in 1..Len(hexInput) : focus' = i
    /\ UNCHANGED <<fn, arg, ret, storage, loaded, palettes, currentView, selectedPaletteId,
                   editedPalette, toast, nextId, clock, listVars, download, shadesModal,
                   hexInput>>

\* the hex field's onChange (PaletteEditor.tsx line 352)
TypeHex ==
    /\ RowsShown
    /\ focus # 0
    /\ \E text \in HexTyped : hexInput' = [hexInput EXCEPT ![focus] = text]
    /\ UNCHANGED <<fn, arg, ret, storage, loaded, palettes, currentView, selectedPaletteId,
                   editedPalette, toast, nextId, clock, listVars, download, shadesModal, focus>>

\* ColorRow.handleHexBlur of the i-th row (PaletteEditor.tsx lines 308-318),
\* run when its hex field loses the focus
handleHexBlur(i) ==
    /\ RowsShown
    /\ focus = i
    /\ focus' = 0
    /\ IF normalizeHex(hexInput[i]) # Null
       THEN /\ clock < MaxClock
            /\ editedPalette' = updateColor(editedPalette, editedPalette.colors[i].id,
                                            [hex |-> normalizeHex(hexInput[i])], clock)
            /\ clock' = clock + 1
            /\ hexInput' = [hexInput EXCEPT ![i] = normalizeHex(hexInput[i])]
            /\ UNCHANGED toast
       ELSE /\ hexInput' = [hexInput EXCEPT ![i] = editedPalette.colors[i].hex]
            /\ toast' = "Invalid hex color"
            /\ UNCHANGED <<editedPalette, clock>>
    /\ UNCHANGED <<fn, arg, ret, storage, loaded, palettes, currentView, selectedPaletteId,
                   nextId, listVars, download, shadesModal>>

Blur == \E i \in 1..Len(hexInput) : handleHexBlur(i)

\* the Shades button of a row (PaletteEditor.tsx line 393) and App's
\* onOpenShades (part_003 lines 545-547): the modal keeps the colour it was
\* opened for, and its onSelect updates the colour with that id
OpenShades ==
    /\ EditorShown
    /\ \E i \in 1..Len(editedPalette.colors) :
           shadesModal' = [color |-> editedPalette.colors[i]]
    /\ UNCHANGED <<fn, arg, ret, storage, loaded, palettes, currentView, selectedPaletteId,
                   editedPalette, toast, nextId, clock, listVars, download, hexInput, focus>>

\* ShadesModal.handleUseShade (colorUtils.ts lines 268-272) with
\* onSelectShade = (hex) => onUpdate({ hex }) of the row and onClose of App
\* (part_003 line 558); the row's hex field is not set
handleUseShade(hex) ==
    /\ loaded
    /\ shadesModal # Null
    /\ clock < MaxClock
    /\ editedPalette' = updateColor(editedPalette, shadesModal.color.id, [hex |-> hex], clock)
    /\ clock' = clock + 1
    /\ toast' = "Updated to " \o JoinChars(hex)
    /\ shadesModal' = Null
    /\ UNCHANGED <<fn, arg, ret, storage, loaded, palettes, currentView, selectedPaletteId,
                   nextId, listVars, download, hexInput, focus>>

\* the button "Use this shade" of a shade, shown unless the shade is the
\* colour itself (colorUtils.ts lines 326 and 328)
UseShade ==
    /\ shadesModal # Null
    /\ \E k \in ShadeInputs :
           /\ generateShades(shadesModal.color.hex)[k] # shadesModal.color.hex
           /\ handleUseShade(generateShades(shadesModal.color.hex)[k])

\* the modal's onClose (part_003 line 558)
CloseShades ==
    /\ loaded
    /\ shadesModal # Null
    /\ shadesModal' = Null
    /\ UNCHANGED <<fn, arg, ret, storage, loaded, palettes, currentView, selectedPaletteId,
                   editedPalette, toast, nextId, clock, listVars, download, hexInput, focus>>

\* the user works on the hex fields of a palette: types into them, leaves
\* them, and opens the shades modal
NextRow ==
    \/ LoadEffect
    \/ handleSelectPalette
    \/ FocusHex
    \/ TypeHex
    \/ Blur
    \/ OpenShades
    \/ UseShade
    \/ CloseShades
    \/ handleBack

SpecRow == InitApp /\ [][NextRow]_vars

\* a user who never types into a hex field: leaves the fields, picks
\* colours, labels and roles, and opens the shades modal
NextUntyped ==
    \/ LoadEffect
    \/ handleSelectPalette
    \/ FocusHex
    \/ Blur
    \/ UpdateColor
    \/ OpenShades
    \/ UseShade
    \/ CloseShades
    \/ handleBack

SpecUntyped == InitApp /\ [][NextUntyped]_vars

(***************************************************************************)
(* A caller of moveColor with any colour id and direction, also those the  *)
(* buttons of the editor never pass.                                       *)
(***************************************************************************)
MaxRow == 3         \* most colours of a palette handed to moveColor

\* the colour a palette got from the n-th generateId
RowColor(n) ==
    [id |-> generateId(n), hex |-> <<"#", "3", "B", "8", "2", "F", "6">>,
     label |-> "", role |-> "other"]

\* the rows of up to MaxRow colours with different ids among 1..MaxRow
Rows ==
    UNION {{[i \in 1..k |-> RowColor(f[i])] :
               f \in {g \in [1..k -> 1..MaxRow] :
                         \A a, b \in 1..k : a # b => g[a] # g[b]}} :
           k \in 0..MaxRow}

MoveInputs ==
    [prev : {[id |-> generateId(0), name |-> <<"A">>, brand |-> "", notes |-> "",
              colors |-> row, createdAt |-> 0, updatedAt |-> 0] : row \in Rows},
     colorId : {generateId(n) : n \in 1..(MaxRow + 1)},
     direction : {"left", "right"}]

InitMove ==
    /\ fn = "none"
    /\ arg \in MoveInputs
    /\ ret = Null
    /\ AppNotStarted

CallMoveColor ==
    /\ fn = "none"
    /\ fn' = "moveColor"
    /\ ret' = moveColor(arg.prev, arg.colorId, arg.direction, arg.prev.updatedAt + 1)
    /\ UNCHANGED <<arg, appVars>>

NextMove == CallMoveColor

SpecMove == InitMove /\ [][NextMove]_vars

(***************************************************************************)
(* Vocabulary of the claims, stated without the functions above            *)
(***************************************************************************)
Abs(x) == IF x < 0 THEN -x ELSE x

HexDigitSet ==
    {"0", "1", "2", "3", "4", "5", "6", "7", "8", "9",
     "a", "b", "c", "d", "e", "f", "A", "B", "C", "D", "E", "F"}

UpperHexDigitSet ==
    {"0", "1", "2", "3", "4", "5", "6", "7", "8", "9", "A", "B", "C", "D", "E", "F"}

\* '#' followed by exactly 6 upper-case hexadecimal digits
IsCanonical(x) ==
    /\ Len(x) = 7
    /\ x[1] = "#"
    /\ \A i \in 2..7 : x[i] \in UpperHexDigitSet

\* what is left of x after dropping blanks on both sides and at most one
\* leading '#'
Bodies(x) ==
    LET cores == {SubSeq(x, a + 1, b) : <<a, b>> \in
                    {<<a, b>> \in (0..Len(x)) \X (0..Len(x)) :
                        /\ a <= b
                        /\ \A i \in 1..a : x[i] \in Whitespace
                        /\ \A i \in (b + 1)..Len(x) : x[i] \in Whitespace}}
    IN  cores \cup {Tail(c) : c \in {c \in cores : c # <<>> /\ c[1] = "#"}}

IsDigits(body) ==
    /\ Len(body) \in {3, 6}
    /\ \A i \in 1..Len(body) : body[i] \in HexDigitSet

\* x is blanks, at most one '#', exactly 3 or 6 hexadecimal digits, blanks
Accepted(x) == \E body \in Bodies(x) : IsDigits(body)

Doubled(body) ==
    IF Len(body) = 3
    THEN <<body[1], body[1], body[2], body[2], body[3], body[3]>>
    ELSE body

UpperHex(c) ==
    CASE c = "a" -> "A" [] c = "b" -> "B" [] c = "c" -> "C"
      [] c = "d" -> "D" [] c = "e" -> "E" [] c = "f" -> "F"
      [] OTHER -> c

CanonicalOf(body) == <<"#">> \o [i \in 1..6 |-> UpperHex(Doubled(body)[i])]

\* the number two upper-case hexadecimal digits of x, at i and i + 1, denote
PairValue(x, i) ==
    LET v(c) == CHOOSE k \in 0..15 : UpperDigits[k + 1] = c
    IN  16 * v(x[i]) + v(x[i + 1])

\* the integers nearest to n tenths
NearestIntegers(n) ==
    {k \in ((n \div 10) - 1)..((n \div 10) + 1) : Abs(10 * k - n) <= 5}

Clamp(k) == IF k < 0 THEN 0 ELSE IF k > 255 THEN 255 ELSE k

\* the largest difference between two colours in one channel
Drift(x, y) ==
    Max(Abs(x.r - y.r), Max(Abs(x.g - y.g), Abs(x.b - y.b)))

\* arg of SpecRgbHex is three integers in 0..255
IsByteTriple(x) ==
    \A n \in {x.r, x.g, x.b} : n % 10 = 0 /\ n >= 0 /\ n <= 2550

C2_HslRange ==
    fn = "rgbToHsl" =>
        /\ ret.h \in 0..359
        /\ ret.s \in 0..100
        /\ ret.l \in 0..100
        /\ (arg.r = arg.g /\ arg.g = arg.b) => (ret.h = 0 /\ ret.s = 0)

(***************************************************************************)
(* C3                                                                      *)
(***************************************************************************)
\* C3: for every input normalizeHex accepts, the first entry of
\* generatePaletteFromBase has the normalized input as its hex.
C3_PrimaryIsNormalized ==
    (fn = "generatePaletteFromBase" /\ normalizeHex(arg) # Null) =>
        ret[1].hex = normalizeHex(arg)

(***************************************************************************)
(* C4                                                                      *)
(***************************************************************************)
\* C4: every element of generateShades and the hex of every entry of
\* generatePaletteFromBase is canonical, whatever the input.
C4_OutputsCanonical ==
    /\ fn = "generateShades" => \A i \in 1..Len(ret) : IsCanonical(ret[i])
    /\ fn = "generatePaletteFromBase" =>
           (Len(ret) = 5 /\ \A i \in 1..Len(ret) : IsCanonical(ret[i].hex))

(***************************************************************************)
(* C5                                                                      *)
(***************************************************************************)
\* C5: normalizing a result of normalizeHex again returns it unchanged, and
\* a canonical input is returned as it is.
C5_Idempotent ==
    fn = "normalizeHex" =>
        /\ ret # Null => normalizeHex(ret) = ret
        /\ IsCanonical(arg) => ret = arg

\* a string that is not canonical has been normalized
C5_Witness ==
    fn = "normalizeHex" /\ ret # Null /\ ret # arg

(***************************************************************************)
(* C6                                                                      *)
(***************************************************************************)
\* C6: an accepted input normalizes to '#' and its digits in upper case, 3
\* digits doubled one by one first; so a shorthand and its doubled form,
\* with or without '#', normalize to the same value, and "#abc" and
\* "#aabbcc" give "#AABBCC".
C6_ShorthandExpansion ==
    fn = "normalizeHex" =>
        /\ \A body \in Bodies(arg) :
               IsDigits(body) =>
                   /\ ret = CanonicalOf(body)
                   /\ normalizeHex(Doubled(body)) = ret
                   /\ normalizeHex(<<"#">> \o Doubled(body)) = ret
        /\ arg \in {<<"#", "a", "b", "c">>, <<"#", "a", "a", "b", "b", "c", "c">>} => ret = <<"#", "A", "A", "B", "B", "C", "C">>

\* a 3-digit input, not in upper case, has been expanded
C6_Witness ==
    /\ fn = "normalizeHex"
    /\ \E body \in Bodies(arg) :
           IsDigits(body) /\ Len(body) = 3 /\ \E i \in 1..3 : UpperHex(body[i]) # body[i]
    /\ Len(ret) = 7

(***************************************************************************)
(* C7                                                                      *)
(***************************************************************************)
\* C7: normalizeHex returns null exactly for the inputs that are not blanks,
\* at most one '#', 3 or 6 hexadecimal digits, blanks; "", "#", "#12345",
\* "#gggggg" and "##abc" are among them, and hexToRgb decodes none of them.
C7_RejectsExactly ==
    /\ fn = "normalizeHex" =>
           /\ (ret = Null) <=> ~Accepted(arg)
           /\ arg \in {<<>>, <<"#">>, <<"#", "1", "2", "3", "4", "5">>, <<"#", "g", "g", "g", "g", "g", "g">>, <<"#", "#", "a", "b", "c">>} => ret = Null
           /\ (\A i \in 1..Len(arg) : arg[i] \in HexDigitSet) =>
                  ((ret = Null) <=> Len(arg) \notin {3, 6})
    /\ (fn = "hexToRgb" /\ ~Accepted(arg)) => ret = Null

\* a string of 7 hexadecimal digits has been rejected
C7_Witness ==
    /\ fn = "normalizeHex"
    /\ Len(arg) = 7
    /\ \A i \in 1..7 : arg[i] \in HexDigitSet
    /\ ret = Null

(***************************************************************************)
(* C8                                                                      *)
(***************************************************************************)
\* C8: decoding the hex string of three integers in 0..255 gives the three
\* integers back, and encoding the channels of a decoded canonical string
\* gives the string back.
C8_RgbRoundTrip ==
    /\ (fn = "hexToRgb" /\ IsByteTriple(arg)) =>
           ret = [r |-> arg.r \div 10, g |-> arg.g \div 10, b |-> arg.b \div 10]
    /\ fn = "rgbToHex" =>
           LET c == hexToRgb(ret)
           IN  c # Null /\ rgbToHex(10 * c.r, 10 * c.g, 10 * c.b) = ret

\* three integers, one of them below 16, have come back
C8_Witness ==
    /\ fn = "hexToRgb"
    /\ IsByteTriple(arg)
    /\ arg.r = 70
    /\ ret # Null

(***************************************************************************)
(* C9                                                                      *)
(***************************************************************************)
\* C9: rgbToHex returns a canonical string for any three numbers; each pair
\* of digits is the channel rounded to a nearest integer and clamped to
\* 0..255, and rgbToHex(-5, 300, 15) is "#00FF0F".
C9_ClampAndRound ==
    fn = "rgbToHex" =>
        /\ IsCanonical(ret)
        /\ \E k \in NearestIntegers(arg.r) : PairValue(ret, 2) = Clamp(k)
        /\ \E k \in NearestIntegers(arg.g) : PairValue(ret, 4) = Clamp(k)
        /\ \E k \in NearestIntegers(arg.b) : PairValue(ret, 6) = Clamp(k)
        /\ arg = [r |-> -50, g |-> 3000, b |-> 150] => ret = <<"#", "0", "0", "F", "F", "0", "F">>

\* a negative, a too large and a fractional channel have been rendered
C9_Witness ==
    /\ fn = "rgbToHex"
    /\ arg.r < 0 /\ arg.g > 2550 /\ arg.b > 0 /\ arg.b < 2550 /\ arg.b % 10 = 5
    /\ IsCanonical(ret)

(***************************************************************************)
(* C10                                                                     *)
(***************************************************************************)
\* C10: for every string normalizeHex rejects, hexToRgb returns null,
\* generateShades the empty sequence and getColorBrightness "dark".
C10_MalformedInput ==
    normalizeHex(arg) = Null =>
        /\ fn = "hexToRgb" => ret = Null
        /\ fn = "generateShades" => ret = <<>>
        /\ fn = "getColorBrightness" => ret = "dark"

\* a rejected string has been classified
C10_Witness ==
    /\ fn = "getColorBrightness"
    /\ normalizeHex(arg) = Null
    /\ arg # <<>>
    /\ ret = "dark"

(***************************************************************************)
(* Vocabulary of the claims about shades and palettes                      *)
(***************************************************************************)
Schedule == <<95, 85, 75, 65, 55, 45, 35, 25, 20, 15, 10, 5>>

\* rgbToHex(hslToRgb(h, s, l)), s in tenths
HexOfHsl(h, s, l) ==
    LET c == hslToRgb(h, s, l)
    IN  rgbToHex(10 * c.r, 10 * c.g, 10 * c.b)

\* rgbToHsl(hexToRgb(x)) of a valid x
BaseHsl(x) ==
    LET rgb == hexToRgb(x)
    IN  rgbToHsl(rgb.r, rgb.g, rgb.b)

IsValid(x) == hexToRgb(x) # Null

RoleOrder == <<"primary", "accent", "background", "text", "other">>

\* 299 r + 587 g + 114 b, the luminance times 255000
Weighted(c) == 299 * c.r + 587 * c.g + 114 * c.b

C12_LightToDark ==
    (fn = "generateShades" /\ IsValid(arg)) =>
        \A c \in {[i \in 1..Len(ret) |-> hexToRgb(ret[i])]} :
            \A i \in 1..Len(ret) : \A j \in (i + 1)..Len(ret) :
                /\ c[j].r <= c[i].r
                /\ c[j].g <= c[i].g
                /\ c[j].b <= c[i].b
                /\ Weighted(c[j]) <= Weighted(c[i])

C12_Witness ==
    /\ fn = "generateShades"
    /\ IsValid(arg)
    /\ Len(ret) = 12
    /\ hexToRgb(ret[8]).r > hexToRgb(ret[9]).r
    /\ hexToRgb(ret[1]).b > hexToRgb(ret[12]).b

(***************************************************************************)
(* C13                                                                     *)
(***************************************************************************)
\* C13: for a valid hex with channels r, g, b, getColorBrightness returns
\* 'light' exactly when 299 r + 587 g + 114 b > 127500 and 'dark'
\* otherwise, also where the sum is exactly 127500.
C13_StrictThreshold ==
    (fn = "getColorBrightness" /\ IsValid(arg)) =>
        /\ ret \in {"light", "dark"}
        /\ ret = "light" <=> Weighted(hexToRgb(arg)) > 127500

(***************************************************************************)
(* C14                                                                     *)
(***************************************************************************)
\* C14: for every input generatePaletteFromBase returns exactly 5 entries
\* with the roles primary, accent, background, text, other in this order.
C14_FiveRolesInOrder ==
    fn = "generatePaletteFromBase" =>
        /\ Len(ret) = 5
        /\ \A i \in 1..5 : ret[i].role = RoleOrder[i]

C14_Witness ==
    /\ fn = "generatePaletteFromBase"
    /\ ~IsValid(arg)
    /\ arg # <<>>
    /\ Len(ret) = 5
    /\ ret[4].role = "text"

(***************************************************************************)
(* C15                                                                     *)
(***************************************************************************)
\* C15: for a valid base with (h, s, l) = rgbToHsl(base) the accent entry
\* is rgbToHex(hslToRgb((h + 180) mod 360, s, l)); #FF0000 gives #00FFFF.
C15_AccentComplement ==
    (fn = "generatePaletteFromBase" /\ IsValid(arg)) =>
        LET hsl == BaseHsl(arg)
        IN  /\ ret[2].hex = HexOfHsl((hsl.h + 180) % 360, 10 * hsl.s, hsl.l)
            /\ arg = <<"#", "F", "F", "0", "0", "0", "0">> =>
                   ret[2].hex = <<"#", "0", "0", "F", "F", "F", "F">>

C15_Witness ==
    /\ fn = "generatePaletteFromBase"
    /\ IsValid(arg)
    /\ BaseHsl(arg).h >= 180
    /\ BaseHsl(arg).s > 0
    /\ ret[2].role = "accent"
    /\ ret[2].hex # normalizeHex(arg)

(***************************************************************************)
(* C16                                                                     *)
(***************************************************************************)
\* C16: for a valid base the background entry is
\* rgbToHex(hslToRgb(h, max(10, 0.2 s), 95)), whatever the base lightness.
C16_Background ==
    (fn = "generatePaletteFromBase" /\ IsValid(arg)) =>
        LET hsl == BaseHsl(arg)
            tenths == IF 2 * hsl.s >= 100 THEN 2 * hsl.s ELSE 100
        IN  ret[3].hex = HexOfHsl(hsl.h, tenths, 95)

C16_Witness ==
    /\ fn = "generatePaletteFromBase"
    /\ IsValid(arg)
    /\ BaseHsl(arg).s \in 1..49
    /\ BaseHsl(arg).l < 50
    /\ ret[3].role = "background"
    /\ hexToRgb(ret[3].hex).r > 230

(***************************************************************************)
(* C17                                                                     *)
(***************************************************************************)
\* C17: for a valid base the text entry is
\* rgbToHex(hslToRgb(h, min(15, 0.3 s), 15)); that saturation is never
\* above 15 and never above the base saturation.
C17_Text ==
    (fn = "generatePaletteFromBase" /\ IsValid(arg)) =>
        LET hsl == BaseHsl(arg)
            tenths == IF 3 * hsl.s <= 150 THEN 3 * hsl.s ELSE 150
        IN  /\ ret[4].hex = HexOfHsl(hsl.h, tenths, 15)
            /\ tenths <= 150
            /\ tenths <= 10 * hsl.s

C17_Witness ==
    /\ fn = "generatePaletteFromBase"
    /\ IsValid(arg)
    /\ BaseHsl(arg).s \in 1..49
    /\ BaseHsl(arg).l > 50
    /\ ret[4].role = "text"
    /\ hexToRgb(ret[4].hex).g < 50

(***************************************************************************)
(* C18                                                                     *)
(***************************************************************************)
\* C18: for a valid base the fifth entry (role other, label Secondary) is
\* rgbToHex(hslToRgb((h + 30) mod 360, s clamped to 40..80, l + 10 clamped
\* to 35..65)).
C18_Secondary ==
    (fn = "generatePaletteFromBase" /\ IsValid(arg)) =>
        LET hsl == BaseHsl(arg)
            s == IF hsl.s < 40 THEN 40 ELSE IF hsl.s > 80 THEN 80 ELSE hsl.s
            l == IF hsl.l + 10 < 35 THEN 35
                 ELSE IF hsl.l + 10 > 65 THEN 65 ELSE hsl.l + 10
        IN  /\ ret[5].hex = HexOfHsl((hsl.h + 30) % 360, 10 * s, l)
            /\ ret[5].label = "Secondary"
            /\ ret[5].role = "other"

C18_Witness ==
    /\ fn = "generatePaletteFromBase"
    /\ IsValid(arg)
    /\ BaseHsl(arg).s \in 40..80
    /\ BaseHsl(arg).l \in 25..55
    /\ BaseHsl(arg).h >= 330
    /\ ret[5].role = "other"

(***************************************************************************)
(* C19                                                                     *)
(***************************************************************************)
\* C19: for every input that fails to decode generatePaletteFromBase
\* returns one fixed palette of 5 entries, none taken from the input.
C19_FixedFallback ==
    (fn = "generatePaletteFromBase" /\ ~IsValid(arg)) =>
        ret = << [hex |-> <<"#", "3", "B", "8", "2", "F", "6">>, label |-> "Primary", role |-> "primary"],
                 [hex |-> <<"#", "1", "0", "B", "9", "8", "1">>, label |-> "Accent", role |-> "accent"],
                 [hex |-> <<"#", "F", "9", "F", "A", "F", "B">>, label |-> "Light Background", role |-> "background"],
                 [hex |-> <<"#", "1", "F", "2", "9", "3", "7">>, label |-> "Dark Text", role |-> "text"],
                 [hex |-> <<"#", "6", "3", "6", "6", "F", "1">>, label |-> "Secondary", role |-> "other"] >>

C19_Witness ==
    /\ fn = "generatePaletteFromBase"
    /\ arg = <<"n", "o", "t", "-", "a", "-", "c", "o", "l", "o", "r">>
    /\ ret[1].hex = <<"#", "3", "B", "8", "2", "F", "6">>

(***************************************************************************)
(* C20                                                                     *)
(***************************************************************************)
\* the palettes stored under the key, none when the text is absent or no
\* JSON
StoredPalettes ==
    IF IsJSON(storage)
    THEN {JSONparse(storage)[i] : i \in 1..Len(JSONparse(storage))}
    ELSE {}

\* C20: after any change made in the editor (name, brand, notes, a colour's
\* hex, label or role, a colour added, deleted or moved) the collection
\* stored under the key contains the palette as changed, without Save.
C20_ChangesAreStored ==
    (EditorShown /\ IsJSON(storage)) => editedPalette \in StoredPalettes

(***************************************************************************)
(* C21                                                                     *)
(***************************************************************************)
\* C21: a first load with nothing stored under the key returns exactly one
\* default palette and stores that collection, and a loadPalettes that
\* follows, at any later reading of the clock and of the ids, returns the
\* same palette and makes no other default.
C21_FirstLoadStoresDefault ==
    [][(LoadEffect /\ storage = NoItem) =>
          /\ palettes' = <<createDefaultPalette(nextId, clock)>>
          /\ storage' = savePalettes(palettes')
          /\ \A n \in nextId'..(nextId' + 2) : \A now \in clock'..(clock' + 2) :
                 /\ loadPalettes(storage', n, now).palettes = palettes'
                 /\ loadPalettes(storage', n, now).storage = storage'
                 /\ ~loadPalettes(storage', n, now).made]_vars

C21_Witness ==
    /\ loaded
    /\ palettes = <<createDefaultPalette(4, 1)>>
    /\ storage = savePalettes(<<createDefaultPalette(4, 1)>>)
    /\ nextId = 10

(***************************************************************************)
(* C22                                                                     *)
(***************************************************************************)
\* C22: whenever a collection is stored, the content exportBackup produces
\* is accepted by importBackup and is returned as exactly the stored
\* collection.
C22_BackupRoundTrip ==
    (loaded /\ IsJSON(storage)) =>
        /\ importBackup(exportBackup(storage)).ok
        /\ importBackup(exportBackup(storage)).palettes = JSONparse(storage)

(***************************************************************************)
(* C23                                                                     *)
(***************************************************************************)
\* C23: "Use this shade" gives the colour the modal was opened for, found
\* by its id, the hex of the shade picked, leaves every other colour and
\* the order of the colours as they were, and closes the modal.
C23_UseShadeChangesOneColour ==
    [][shadesModal # Null =>
          \A k \in ShadeInputs :
              handleUseShade(generateShades(shadesModal.color.hex)[k]) =>
                  /\ Len(editedPalette'.colors) = Len(editedPalette.colors)
                  /\ \A i \in 1..Len(editedPalette.colors) :
                         editedPalette'.colors[i] =
                             IF editedPalette.colors[i].id = shadesModal.color.id
                             THEN [editedPalette.colors[i] EXCEPT
                                      !.hex = generateShades(shadesModal.color.hex)[k]]
                             ELSE editedPalette.colors[i]
                  /\ shadesModal' = Null]_vars

\* the second of several colours has just got the lightest shade of itself
C23_Witness ==
    /\ EditorShown
    /\ Len(editedPalette.colors) >= 2
    /\ toast = "Updated to " \o JoinChars(editedPalette.colors[2].hex)
    /\ editedPalette.colors[2].hex = generateShades(hexInput[2])[1]

(***************************************************************************)
(* C24                                                                     *)
(***************************************************************************)
\* C24: after a restore with content importBackup accepts, the palettes in
\* memory and the palettes stored are the list of the backup, the view is
\* the list and no palette is selected.
C24_RestoreReplacesCollection ==
    [][showRestoreModal =>
          \A jsonContent \in RestoreContents :
              (handleRestore(jsonContent) /\ importBackup(jsonContent).ok) =>
                  /\ palettes' = JSONparse(jsonContent)
                  /\ IsJSON(storage')
                  /\ JSONparse(storage') = JSONparse(jsonContent)
                  /\ currentView' = "list"
                  /\ selectedPaletteId' = Null]_vars

\* the backup of an earlier session has replaced the default palette the
\* first load made
C24_Witness ==
    /\ toast = restoredToast(1)
    /\ palettes = StoredBefore
    /\ storage = savePalettes(StoredBefore)
    /\ nextId >= 10
    /\ currentView = "list"
    /\ selectedPaletteId = Null

(***************************************************************************)
(* C25                                                                     *)
(***************************************************************************)
\* the position of the colour with this id in a row of different ids, 0 if
\* there is none
PositionOf(row, colorId) ==
    IF \E i \in 1..Len(row) : row[i].id = colorId
    THEN CHOOSE i \in 1..Len(row) : row[i].id = colorId
    ELSE 0

\* how often a colour occurs in a row
Occurrences(row, color) == Cardinality({i \in 1..Len(row) : row[i] = color})

\* C25: moveColor swaps the colour with its neighbour in the direction and
\* changes no other position; for a first colour moved left, a last colour
\* moved right and an id that is not in the palette it returns the palette
\* unchanged, updatedAt included; length and multiset of colours are kept.
C25_MoveSwapsNeighbours ==
    fn = "moveColor" =>
        LET before == arg.prev.colors
            after == ret.colors
            i == PositionOf(before, arg.colorId)
            j == IF arg.direction = "left" THEN i - 1 ELSE i + 1
        IN  /\ Len(after) = Len(before)
            /\ \A k \in 1..Len(before) :
                   Occurrences(after, before[k]) = Occurrences(before, before[k])
            /\ IF i = 0 \/ j < 1 \/ j > Len(before)
               THEN ret = arg.prev
               ELSE /\ after[i] = before[j]
                    /\ after[j] = before[i]
                    /\ \A k \in 1..Len(before) : k \notin {i, j} => after[k] = before[k]

C25_Witness ==
    /\ fn = "moveColor"
    /\ Len(arg.prev.colors) = 3
    /\ arg.colorId = arg.prev.colors[2].id
    /\ arg.direction = "right"
    /\ ret.colors[3] = arg.prev.colors[2]
    /\ ret.colors[1] = arg.prev.colors[1]
    /\ ret.updatedAt # arg.prev.updatedAt

(***************************************************************************)
(* C26                                                                     *)
(***************************************************************************)
\* the contents of the claim: no JSON, no array, an item that is no object,
\* an item without a string id, without a string name, without colors
RejectedContents ==
    {Unparsable,
     [object |-> PastedPalette(<<"C">>)],
     JSONstringify(<<[typeof |-> "number"]>>),
     JSONstringify(<<[name |-> <<"C">>, colors |-> <<>>]>>),
     JSONstringify(<<[id |-> generateId(1), name |-> <<"42">>, colors |-> <<>>]>>),
     JSONstringify(<<[id |-> generateId(1), name |-> <<"C">>]>>)}

\* C26: importBackup rejects content that is no JSON, no array, or has an
\* item that is no object or lacks a string id, a string name or colors;
\* a restore with rejected content leaves the palettes in memory, the
\* stored text, the view and the selection as they were and the restore
\* modal open.
C26_FailedRestoreChangesNothing ==
    [][showRestoreModal =>
          /\ \A jsonContent \in RejectedContents : ~importBackup(jsonContent).ok
          /\ \A jsonContent \in RestoreContents :
                 (handleRestore(jsonContent) /\ ~importBackup(jsonContent).ok) =>
                     /\ UNCHANGED <<palettes, storage, currentView, selectedPaletteId>>
                     /\ showRestoreModal']_vars

C26_Witness ==
    /\ showRestoreModal
    /\ toast = "Invalid backup format: each palette must have an id and name"
    /\ IsJSON(storage)
    /\ JSONparse(storage) = palettes
    /\ Len(palettes) = 2

(***************************************************************************)
(* C27                                                                     *)
(***************************************************************************)
\* C27: Save writes the edited palette to the palette whose id is
\* selectedPaletteId and to no other, and Delete removes that palette and
\* no other.
C27_SaveAndDeleteActOnSelected ==
    [][/\ (handleSave /\ toast' = "Palette saved!") =>
              /\ Len(palettes') = Len(palettes)
              /\ \A i \in 1..Len(palettes) :
                     palettes'[i] = IF palettes[i].id = selectedPaletteId
                                    THEN editedPalette ELSE palettes[i]
       /\ handleDelete =>
              palettes' = SelectSeq(palettes, LAMBDA p : p.id # selectedPaletteId)]_vars

(***************************************************************************)
(* C28                                                                     *)
(***************************************************************************)
\* C28: while the view is the editor selectedPaletteId is the id of a
\* palette of the collection; after a delete, a back and a restore that
\* succeeds the view is the list and selectedPaletteId is null.
C28_EditorHasSelection ==
    /\ [](currentView = "editor" =>
             /\ selectedPaletteId # Null
             /\ \E i \in 1..Len(palettes) : palettes[i].id = selectedPaletteId)
    /\ [][(\/ handleDelete
           \/ handleBack
           \/ /\ showRestoreModal
              /\ \E jsonContent \in RestoreContents :
                     handleRestore(jsonContent) /\ importBackup(jsonContent).ok) =>
              (currentView' = "list" /\ selectedPaletteId' = Null)]_vars

\* the editor is shown on a copy just made
C28_Witness ==
    /\ currentView = "editor"
    /\ toast = "Palette copied!"
    /\ Len(palettes) = 2
    /\ selectedPaletteId = palettes[2].id

(***************************************************************************)
(* C29                                                                     *)
(***************************************************************************)
\* C29: from the first load on, the text stored under the key is the JSON
\* of the palettes App holds in memory.
C29_StoredEqualsMemory ==
    loaded => (IsJSON(storage) /\ JSONparse(storage) = palettes)

(***************************************************************************)
(* C30                                                                     *)
(***************************************************************************)
\* C30: when the user never types into a hex field, leaving the field of a
\* row does not change the hex of its colour, whether the row has just been
\* rendered, the colour picker has set the colour or "Use this shade" has.
C30_BlurKeepsHex ==
    [][\A i \in 1..Len(hexInput) :
          handleHexBlur(i) => editedPalette'.colors[i].hex = editedPalette.colors[i].hex]_vars

====
